---- MODULE Spec2Model ----
(***************************************************************************)
(* Model of src/app.py, the final revision of the branching story          *)
(* visualizer: the Streamlit script that keeps a story tree in             *)
(* st.session_state.story_data, rebuilds the lookup index                  *)
(* st.session_state.node_paths on every script run, and grafts generated   *)
(* branches onto a chosen node ("Create Branch").                          *)
(*                                                                         *)
(* Python objects live in a heap: a sequence of node records addressed by  *)
(* their position, so that two references to one dict are one id.  The     *)
(* objects of story_data occupy a prefix of the heap; the objects a script *)
(* run creates and does not graft (the generated batch, its deep copy, the *)
(* merge node) follow it and are dropped when the next script run starts,  *)
(* since every Streamlit run executes the script in a fresh namespace.  A  *)
(* run that ends with an exception leaves only the exception report: its   *)
(* locals are recorded as unassigned.                                      *)
(*                                                                         *)
(* A node's "children" key being absent is represented as an empty list:   *)
(* every read in the script is node.get("children", []).  Every dict node  *)
(* carries a "description", so no dict node is falsy.                      *)
(***************************************************************************)
EXTENDS Integers, Sequences, FiniteSets, TLC

\* ------------------------------------------------------------- bounds
\* the largest number of objects an extension may bring story_data to
MaxNodes == 4
\* the largest slider value explored (the slider itself goes up to 10)
MaxBranchLength == 3

\* ---------------------------------------------------------- constants
\* st.slider(..., min_value=2, ...)
MinBranchLength == 2

\* st.session_state.story_data = None; also stands for any falsy JSON value
None == 0
\* a path variable that was never assigned in the run
NoPath == <<-1>>
\* the prefix step of extract_node_paths, "-> " standing for the arrow
Arrow == "> "
Placeholder == "Select a node to extend..."
AltEnding == "Alternative Ending (No Merge)"

VARIABLES
    story_data,          \* st.session_state.story_data: None or the root's id
    heap,                \* the Python objects: a sequence of node records
    node_paths,          \* st.session_state.node_paths: key -> path
    rendered,            \* the last run reached the select boxes (no exception before)
    source_path,         \* locals of the last run as it ended, NoPath if unassigned
    dest_path,
    branch_length,       \* the slider value of the last Create Branch run, 0 otherwise
    branch_options,      \* ids of the generated batch, <<>> if none
    branch_options_copy, \* ids of copy.deepcopy(branch_options), <<>> if unassigned
    single_branch_mode,  \* the radio's value read by the last Create Branch run
    is_alt_ending,       \* is_alt_ending of the last Create Branch run
    button,              \* the button that started the last run
    message              \* what the last run reported

vars == <<story_data, heap, node_paths, rendered, source_path, dest_path,
          branch_length, branch_options, branch_options_copy,
          single_branch_mode, is_alt_ending, button, message>>

\* ------------------------------------------------------------- nodes
DictNode(has_name, name, children, achievement) ==
    [kind |-> "dict", has_name |-> has_name, name |-> name,
     children |-> children, achievement |-> achievement,
     has_merge |-> FALSE, merge_target |-> <<>>]

\* a JSON value that is not an object (a number, a string, a list where a
\* record is expected): every .get on it raises AttributeError
ScalarNode ==
    [kind |-> "scalar", has_name |-> FALSE, name |-> "", children |-> <<>>,
     achievement |-> FALSE, has_merge |-> FALSE, merge_target |-> <<>>]

\* a merge node that holds the tree's root object among its children
MergeNodeWithChild(dest_name, path) ==
    [kind |-> "dict", has_name |-> TRUE, name |-> "Merge back to: " \o dest_name,
     children |-> <<1>>, achievement |-> FALSE,
     has_merge |-> TRUE, merge_target |-> path]

\* a merge node that stores the destination's path with 1-based indices
MergeNodeOneBased(dest_name, path) ==
    [kind |-> "dict", has_name |-> TRUE, name |-> "Merge back to: " \o dest_name,
     children |-> <<>>, achievement |-> FALSE,
     has_merge |-> TRUE, merge_target |-> [i \in 1..Len(path) |-> path[i] + 1]]

\* the merge_node literal of the Create Branch handler
MergeNode(dest_name, path) ==
    [kind |-> "dict", has_name |-> TRUE, name |-> "Merge back to: " \o dest_name,
     children |-> <<>>, achievement |-> FALSE,
     has_merge |-> TRUE, merge_target |-> path]

\* node.get("name", default)
GetName(n, default) == IF n.has_name THEN n.name ELSE default

Max(S) == CHOOSE x \in S : \A y \in S : y <= x

Range(s) == {s[i] : i \in 1..Len(s)}

\* ------------------------------------------------------ value fragments
\* A generated JSON value, laid out as objects with ids relative to the
\* fragment: nodes, the ids of the top-level elements, and the value's type
\* ("dict": one record; "list": a list of elements; "scalar": anything else
\* that is truthy; "falsy": null, {}, [], 0, "").
Frag(type, nodes, top) == [type |-> type, nodes |-> nodes, top |-> top]

\* a linear chain of records, one per name, the last with or without achievement
ChainNodes(names, ach) ==
    [i \in 1..Len(names) |->
        DictNode(TRUE, names[i],
                 IF i < Len(names) THEN <<i + 1>> ELSE <<>>,
                 ach /\ i = Len(names))]

Shift(nodes, off) ==
    [i \in 1..Len(nodes) |->
        [nodes[i] EXCEPT !.children = [j \in 1..Len(@) |-> @[j] + off]]]

\* the list of two lists' elements
ListOf(f, g) ==
    Frag("list", f.nodes \o Shift(g.nodes, Len(f.nodes)),
         f.top \o [j \in 1..Len(g.top) |-> g.top[j] + Len(f.nodes)])

Single(node) == Frag("list", <<node>>, <<1>>)
ChainList(names, ach) == Frag("list", ChainNodes(names, ach), <<1>>)

\* ------------------------------------------------------- get_story_json
\* The fallback initial story: the literal returned when is_initial_story.
FallbackStory ==
    Frag("dict",
         ChainNodes(<<"Student's Day", "Morning Begins", "Heading to School",
                      "First Class", "End of Day">>, FALSE),
         <<1>>)

\* str(k) for the k the fallback formats (branch_length is at most 10)
Decimal == <<"1", "2", "3", "4", "5", "6", "7", "8", "9", "10", "11">>

\* The branch_nodes loop of the fallback: for i in range(branch_length - 1),
\* the node appended at step i refers to branch_nodes[-1], the node appended
\* before it (none at i = 0).  Ids are positions in branch_nodes.
RECURSIVE BranchNodes(_, _, _)
BranchNodes(i, bl, branch_nodes) ==
    IF i >= bl - 1 THEN branch_nodes
    ELSE BranchNodes(i + 1, bl,
            Append(branch_nodes,
                IF i = bl - 2
                THEN DictNode(TRUE, "Final Node in Branch", <<>>, FALSE)
                ELSE DictNode(TRUE,
                        "Node " \o Decimal[i + 2] \o " in Branch",
                        IF branch_nodes # <<>> THEN <<Len(branch_nodes)>> ELSE <<>>,
                        FALSE)))

\* The fallback list: Option A and Option B, both with children
\* [branch_nodes[0]], one object.  branch_nodes[0] was appended when
\* branch_nodes was empty, so it has no children and the later elements of
\* branch_nodes are not reachable from the returned list: they are left out.
FallbackBranches(bl) ==
    LET branch_nodes == BranchNodes(0, bl, <<>>)
        kids == IF branch_nodes # <<>> THEN <<3>> ELSE <<>>
    IN  Frag("list",
             <<DictNode(TRUE, "Option A", kids, FALSE),
               DictNode(TRUE, "Option B", kids, FALSE)>>
             \o (IF branch_nodes # <<>> THEN <<branch_nodes[1]>> ELSE <<>>),
             <<1, 2>>)

\* What the chat-completion call can do: fail ("error"), answer with text
\* that json.loads rejects ("nonjson"), or answer with a JSON value.
ApiError == [outcome |-> "error", value |-> Frag("falsy", <<>>, <<>>)]
ApiNonJson == [outcome |-> "nonjson", value |-> Frag("falsy", <<>>, <<>>)]
ApiJson(v) == [outcome |-> "json", value |-> v]

\* JSON values the model answers the initial-story prompt with
InitialValues ==
    { Frag("dict", ChainNodes(<<"A">>, FALSE), <<1>>),
      Frag("dict", <<DictNode(TRUE, "A", <<2, 3>>, FALSE),
                     DictNode(TRUE, "B", <<>>, FALSE),
                     DictNode(TRUE, "B", <<>>, FALSE)>>, <<1>>),
      Frag("scalar", <<ScalarNode>>, <<1>>),
      Frag("falsy", <<>>, <<>>) }

\* JSON values the model answers an extension prompt with
ExtensionValues ==
    { Frag("dict", ChainNodes(<<"C">>, FALSE), <<1>>),
      ListOf(ChainList(<<"A">>, TRUE), ChainList(<<"B">>, FALSE)),
      ChainList(<<"A", "B">>, FALSE),
      ListOf(Single(DictNode(FALSE, "", <<>>, FALSE)), Single(ScalarNode)),
      Single(ScalarNode),
      Frag("list", <<>>, <<>>) }

InitialApi == {ApiError, ApiNonJson} \cup {ApiJson(v) : v \in InitialValues}
ExtensionApi == {ApiError, ApiNonJson} \cup {ApiJson(v) : v \in ExtensionValues}

\* get_story_json: [raised, value].  When the API call itself fails,
\* story_content is unbound in the except block and st.write("Raw response:",
\* story_content) raises; when json.loads fails the fallback is returned.
get_story_json(is_initial_story, bl, api) ==
    IF api.outcome = "json" THEN [raised |-> FALSE, value |-> api.value]
    ELSE IF api.outcome = "error" THEN [raised |-> TRUE, value |-> api.value]
    ELSE [raised |-> FALSE,
          value |-> IF is_initial_story THEN FallbackStory ELSE FallbackBranches(bl)]

\* ------------------------------------------------------- tree helpers
\* get_node_by_path taking the children from the end of the list
RECURSIVE get_node_by_path_from_end(_, _, _)
get_node_by_path_from_end(h, node, path) ==
    IF path = <<>> THEN node
    ELSE IF Head(path) >= 0 /\ Head(path) < Len(h[node].children)
         THEN get_node_by_path_from_end(h,
                  h[node].children[Len(h[node].children) - Head(path)], Tail(path))
         ELSE None

\* get_node_by_path: the node's id, or None
RECURSIVE get_node_by_path(_, _, _)
get_node_by_path(h, node, path) ==
    IF path = <<>> THEN node
    ELSE IF Head(path) >= 0 /\ Head(path) < Len(h[node].children)
         THEN get_node_by_path(h, h[node].children[Head(path) + 1], Tail(path))
         ELSE None

\* extract_node_paths appending a node's name after its children's results
RECURSIVE extract_node_paths_postorder(_, _, _, _)
extract_node_paths_postorder(h, node, path, prefix) ==
    IF h[node].kind # "dict" THEN [raised |-> TRUE, result |-> <<>>]
    ELSE
      LET name == prefix \o GetName(h[node], "Unnamed")
          kids == h[node].children
          RECURSIVE loop(_, _)
          loop(i, acc) ==
              IF acc.raised \/ i > Len(kids) THEN acc
              ELSE LET r == extract_node_paths_postorder(h, kids[i],
                                Append(path, i - 1), prefix \o Arrow)
                   IN  loop(i + 1, [raised |-> r.raised,
                                    result |-> acc.result \o r.result])
          below == loop(1, [raised |-> FALSE, result |-> <<>>])
      IN  [raised |-> below.raised,
           result |-> below.result
                         \o <<[name |-> name, path |-> path, node |-> node]>>]

\* extract_node_paths: [raised, result], result the entries (name, path) in
\* the order the function stores them in node_paths and appends them to its
\* result list, each with the object the call was made on; raised when
\* node.get is called on a value that is no dict, the entries stored before
\* it kept.
RECURSIVE extract_node_paths(_, _, _, _)
extract_node_paths(h, node, path, prefix) ==
    IF h[node].kind # "dict" THEN [raised |-> TRUE, result |-> <<>>]
    ELSE
      LET name == prefix \o GetName(h[node], "Unnamed")
          kids == h[node].children
          RECURSIVE loop(_, _)
          loop(i, acc) ==
              IF acc.raised \/ i > Len(kids) THEN acc
              ELSE LET r == extract_node_paths(h, kids[i], Append(path, i - 1),
                                               prefix \o Arrow)
                   IN  loop(i + 1, [raised |-> r.raised,
                                    result |-> acc.result \o r.result])
      IN  loop(1, [raised |-> FALSE,
                   result |-> <<[name |-> name, path |-> path, node |-> node]>>])

\* node_paths filled with setdefault: the first assignment to a key stays
StorePaths_first_wins(entries) ==
    [k \in {entries[i].name : i \in 1..Len(entries)} |->
        entries[CHOOSE i \in 1..Len(entries) :
                    /\ entries[i].name = k
                    /\ \A j \in 1..(i - 1) : entries[j].name # k].path]

\* st.session_state.node_paths after the assignments node_paths[name] = path
\* made in the order of entries: the last assignment to a key stays
StorePaths(entries) ==
    [k \in {entries[i].name : i \in 1..Len(entries)} |->
        entries[Max({i \in 1..Len(entries) : entries[i].name = k})].path]

\* update_node_children as the earlier revision wrote it: the target's
\* children are replaced by the new ones
RECURSIVE update_node_children_replace(_, _, _, _, _)
update_node_children_replace(h, node, path, index, new_children) ==
    IF index >= Len(path)
    THEN [ok |-> TRUE,
          h |-> [h EXCEPT ![node].children = new_children]]
    ELSE IF path[index + 1] >= Len(h[node].children)
    THEN [ok |-> FALSE, h |-> h]
    ELSE update_node_children_replace(h, h[node].children[path[index + 1]  + 1],
                                      path, index + 1, new_children)

\* update_node_children putting the new children before the old ones
RECURSIVE update_node_children_prepend(_, _, _, _, _)
update_node_children_prepend(h, node, path, index, new_children) ==
    IF index >= Len(path)
    THEN [ok |-> TRUE,
          h |-> [h EXCEPT ![node].children = new_children \o @]]
    ELSE IF path[index + 1] >= Len(h[node].children)
    THEN [ok |-> FALSE, h |-> h]
    ELSE update_node_children_prepend(h, h[node].children[path[index + 1]  + 1],
                                      path, index + 1, new_children)

\* update_node_children without "return True" after the append: the call
\* returns None, which the handler takes for a failure
RECURSIVE update_node_children_no_return(_, _, _, _, _)
update_node_children_no_return(h, node, path, index, new_children) ==
    IF index >= Len(path)
    THEN [ok |-> FALSE,
          h |-> [h EXCEPT ![node].children = @ \o new_children]]
    ELSE IF path[index + 1] >= Len(h[node].children)
    THEN [ok |-> FALSE, h |-> h]
    ELSE update_node_children_no_return(h, h[node].children[path[index + 1]  + 1],
                                        path, index + 1, new_children)

\* update_node_children appending at the last node the path reaches when an
\* index is out of range, and returning True
RECURSIVE update_node_children_nearest(_, _, _, _, _)
update_node_children_nearest(h, node, path, index, new_children) ==
    IF index >= Len(path) \/ path[index + 1] >= Len(h[node].children)
    THEN [ok |-> TRUE,
          h |-> [h EXCEPT ![node].children = @ \o new_children]]
    ELSE update_node_children_nearest(h, h[node].children[path[index + 1]  + 1],
                                      path, index + 1, new_children)

\* update_node_children appending the new children to every node it passes
\* on the way to the target as well
RECURSIVE update_node_children_along_path(_, _, _, _, _)
update_node_children_along_path(h, node, path, index, new_children) ==
    IF index >= Len(path)
    THEN [ok |-> TRUE,
          h |-> [h EXCEPT ![node].children = @ \o new_children]]
    ELSE IF path[index + 1] >= Len(h[node].children)
    THEN [ok |-> FALSE, h |-> h]
    ELSE update_node_children_along_path(
             [h EXCEPT ![node].children = @ \o new_children],
             h[node].children[path[index + 1]  + 1], path, index + 1, new_children)

\* update_node_children: [ok, h]
RECURSIVE update_node_children(_, _, _, _, _)
update_node_children(h, node, path, index, new_children) ==
    IF index >= Len(path)
    THEN [ok |-> TRUE,
          h |-> [h EXCEPT ![node].children = @ \o new_children]]
    ELSE IF path[index + 1] >= Len(h[node].children)
    THEN [ok |-> FALSE, h |-> h]
    ELSE update_node_children(h, h[node].children[path[index + 1]  + 1],
                              path, index + 1, new_children)

\* the objects reachable from node via children
RECURSIVE Reachable(_, _)
Reachable(h, node) ==
    {node} \cup UNION {Reachable(h, c) : c \in Range(h[node].children)}

\* the objects of story_data: a prefix of the heap
TreeSize(h, root) == IF root = None THEN 0 ELSE Max(Reachable(h, root))

\* ------------------------------------------------------------ the script
NoMessage == [kind |-> "none", added |-> 0, original_count |-> 0]
ExceptionMessage == [kind |-> "exception", added |-> 0, original_count |-> 0]
ErrorMessage == [kind |-> "error", added |-> 0, original_count |-> 0]
SuccessMessage(added, original_count) ==
    [kind |-> "success", added |-> added, original_count |-> original_count]

\* the tail of a script run without line 801: node_paths is not reset before
\* extract_node_paths stores into it
Render_no_reset(h, root, old_paths) ==
    IF root = None THEN [node_paths |-> old_paths, rendered |-> FALSE]
    ELSE LET e == extract_node_paths(h, root, <<>>, "")
         IN  [node_paths |-> StorePaths(e.result) @@ old_paths,
              rendered |-> ~e.raised]

\* The tail of every script run: "if st.session_state.story_data:", the reset
\* of node_paths and extract_node_paths, up to the select boxes.
Render(h, root, old_paths) ==
    IF root = None THEN [node_paths |-> old_paths, rendered |-> FALSE]
    ELSE LET e == extract_node_paths(h, root, <<>>, "")
         IN  [node_paths |-> StorePaths(e.result), rendered |-> ~e.raised]

\* the while loop with the bound depth < branch_length - 1: one step deeper
RECURSIVE walk_one_deeper(_, _, _, _)
walk_one_deeper(h, current_node, depth, bl) ==
    IF h[current_node].kind # "dict" THEN None
    ELSE IF h[current_node].children # <<>> /\ depth < bl - 1
         THEN walk_one_deeper(h, h[current_node].children[1], depth + 1, bl)
         ELSE current_node

\* "Navigate to the last node": the while loop of the per-branch body.  The
\* node's id, or None when current_node.get raises on a value that is no dict.
RECURSIVE walk(_, _, _, _)
walk(h, current_node, depth, bl) ==
    IF h[current_node].kind # "dict" THEN None
    ELSE IF h[current_node].children # <<>> /\ depth < bl - 2
         THEN walk(h, h[current_node].children[1], depth + 1, bl)
         ELSE current_node

\* the per-branch body connecting the last node to the destination node
\* object itself instead of a merge node
attach_destination_object(h, current_node, bo, c) ==
    IF c.dest_node_obj # None
    THEN [h |-> [h EXCEPT ![current_node].children = <<c.dest_node_obj>>,
                          ![current_node].achievement = TRUE],
          branch_options |-> bo]
    ELSE [h |-> h, branch_options |-> bo]

\* The if dest_node_obj / elif is_alt_ending part of the per-branch body:
\* [h, branch_options].
attach(h, current_node, bo, c) ==
    IF c.dest_node_obj # None
    THEN LET ha == IF ~h[current_node].achievement /\ ~c.is_alt_ending
                   THEN [h EXCEPT ![current_node].achievement = TRUE]
                   ELSE h
             merge_node == MergeNode(GetName(h[c.dest_node_obj], "Destination"),
                                     c.dest_path)
         IN  [h |-> Append([ha EXCEPT ![current_node].children = <<Len(h) + 1>>],
                           merge_node),
              branch_options |-> bo]
    ELSE IF c.is_alt_ending /\ ~h[current_node].achievement
    THEN [h |-> [h EXCEPT ![current_node].achievement = TRUE],
          branch_options |-> c.branch_options_copy]
    ELSE [h |-> h, branch_options |-> bo]

\* The graft of the per-branch body: update_node_children is called with
\* branch_options, the list the name is bound to at that point.
graft(h, c, bo) == update_node_children(h, c.root, c.source_path, 0, bo)

\* the loop without st.rerun() after a successful update: the body runs for
\* every branch of the copy and the run ends after the loop
RECURSIVE branch_loop_no_rerun(_, _, _, _, _)
branch_loop_no_rerun(h, i, bo, msg, c) ==
    IF i > Len(c.branch_options_copy)
    THEN [h |-> h, branch_options |-> bo, message |-> msg,
          rerun |-> msg.kind = "success"]
    ELSE
      LET current_node == walk(h, c.branch_options_copy[i], 0, c.branch_length)
      IN  IF current_node = None
          THEN [h |-> h, branch_options |-> bo, message |-> ExceptionMessage,
                rerun |-> FALSE]
          ELSE
            LET a == attach(h, current_node, bo, c)
                u == graft(a.h, c, a.branch_options)
                updated_node == get_node_by_path(u.h, c.root, c.source_path)
                branch_count == Len(u.h[updated_node].children)
            IN  branch_loop_no_rerun(u.h, i + 1, a.branch_options,
                    IF u.ok
                    THEN SuccessMessage(Len(a.branch_options),
                                        branch_count - Len(a.branch_options))
                    ELSE ErrorMessage, c)

\* "for branch in branch_options_copy": the body from branch number i on.
\* A successful update ends the run with st.rerun(); a failed one reports
\* st.error and the loop goes on.
RECURSIVE branch_loop(_, _, _, _, _)
branch_loop(h, i, bo, msg, c) ==
    IF i > Len(c.branch_options_copy)
    THEN [h |-> h, branch_options |-> bo, message |-> msg, rerun |-> FALSE]
    ELSE
      LET current_node == walk(h, c.branch_options_copy[i], 0, c.branch_length)
      IN  IF current_node = None
          THEN [h |-> h, branch_options |-> bo, message |-> ExceptionMessage,
                rerun |-> FALSE]
          ELSE
            LET a == attach(h, current_node, bo, c)
                u == graft(a.h, c, a.branch_options)
                updated_node == get_node_by_path(u.h, c.root, c.source_path)
                branch_count == Len(u.h[updated_node].children)
            IN  IF u.ok
                THEN [h |-> u.h, branch_options |-> a.branch_options,
                      message |-> SuccessMessage(Len(a.branch_options),
                                    branch_count - Len(a.branch_options)),
                      rerun |-> TRUE]
                ELSE branch_loop(u.h, i + 1, a.branch_options, ErrorMessage, c)

\* One press of the Create button: the handler from get_story_json to the end
\* of the run.  h0 holds the objects of story_data only.
CreateBranchRun(h0, root, paths, source_node, dest_node, bl, single, api) ==
    LET r == get_story_json(FALSE, bl, api)
        n == Len(h0)
        \* "if single_branch_mode and not isinstance(branch_options, list)"
        value == IF single /\ r.value.type # "list"
                 THEN [r.value EXCEPT !.type = "list"] ELSE r.value
        k == Len(value.nodes)
        bo == [j \in 1..Len(value.top) |-> value.top[j] + n]
        alt_ending == dest_node = AltEnding
        merging == ~alt_ending /\ dest_node # Placeholder
                   /\ dest_node \in DOMAIN paths
        \* copy.deepcopy keeps the sharing inside the copied value
        h2 == h0 \o Shift(value.nodes, n) \o Shift(value.nodes, n + k)
        boc == [j \in 1..Len(value.top) |-> value.top[j] + n + k]
        c == [root |-> root, source_path |-> paths[source_node],
              dest_path |-> paths[dest_node],
              dest_node_obj |-> get_node_by_path(h0, root, paths[dest_node]),
              branch_length |-> bl, is_alt_ending |-> alt_ending,
              branch_options_copy |-> boc]
        raised == [h |-> h0, source_path |-> NoPath, dest_path |-> NoPath,
                   branch_options |-> <<>>, branch_options_copy |-> <<>>,
                   message |-> ExceptionMessage, rerun |-> FALSE]
    IN  IF r.raised THEN raised
        \* branch_options_copy is not bound: NameError at the for statement
        ELSE IF ~merging THEN raised
        \* iterating a dict yields its keys, a string its characters, a number
        \* raises: no element has .get
        ELSE IF value.type # "list" THEN raised
        ELSE LET out == branch_loop(h2, 1, bo, NoMessage, c)
             IN  IF out.message.kind = "exception"
                 THEN [raised EXCEPT !.h = out.h]
                 ELSE [h |-> out.h, source_path |-> c.source_path,
                       dest_path |-> c.dest_path,
                       branch_options |-> out.branch_options,
                       branch_options_copy |-> boc,
                       message |-> out.message, rerun |-> out.rerun]

\* the slider values explored: the two ends of the explored part of its range
\* (the script tells branch_length = 2 from the larger values only)
BranchLengths == {MinBranchLength, MaxBranchLength}

\* the objects of story_data alone: what is left of the heap when a run's
\* namespace is dropped
Collect(h, root) == SubSeq(h, 1, TreeSize(h, root))

\* a session whose state holds a story before any run
Init_with_story ==
    /\ story_data = 1
    /\ heap = ChainNodes(<<"A">>, FALSE)
    /\ node_paths = StorePaths(<<[name |-> "A", path |-> <<>>, node |-> 1]>>)
    /\ rendered = TRUE
    /\ source_path = NoPath
    /\ dest_path = NoPath
    /\ branch_length = 0
    /\ branch_options = <<>>
    /\ branch_options_copy = <<>>
    /\ single_branch_mode = FALSE
    /\ is_alt_ending = FALSE
    /\ button = "none"
    /\ message = NoMessage

Init ==
    /\ story_data = None
    /\ heap = <<>>
    /\ node_paths = <<>>
    /\ rendered = FALSE
    /\ source_path = NoPath
    /\ dest_path = NoPath
    /\ branch_length = 0
    /\ branch_options = <<>>
    /\ branch_options_copy = <<>>
    /\ single_branch_mode = FALSE
    /\ is_alt_ending = FALSE
    /\ button = "none"
    /\ message = NoMessage

NoLocals ==
    /\ source_path' = NoPath
    /\ dest_path' = NoPath
    /\ branch_length' = 0
    /\ branch_options' = <<>>
    /\ branch_options_copy' = <<>>
    /\ single_branch_mode' = FALSE
    /\ is_alt_ending' = FALSE

\* A run with the Generate Story button pressed.
GenerateStory ==
    \E api \in InitialApi :
      \E r \in {get_story_json(TRUE, 3, api)} :
        /\ button' = "generate"
        /\ NoLocals
        /\ IF r.raised
           THEN /\ story_data' = story_data
                /\ heap' = Collect(heap, story_data)
                /\ node_paths' = node_paths
                /\ rendered' = FALSE
                /\ message' = ExceptionMessage
           ELSE \E root \in {IF r.value.type = "falsy" THEN None ELSE r.value.top[1]} :
                \E v \in {Render(r.value.nodes, root, node_paths)} :
                /\ story_data' = root
                /\ heap' = r.value.nodes
                /\ node_paths' = v.node_paths
                /\ rendered' = v.rendered
                /\ message' = NoMessage

\* A run no button started (a select box, the slider, ... changed).
Rerun ==
    \E h0 \in {Collect(heap, story_data)} :
    \E v \in {Render(h0, story_data, node_paths)} :
        /\ story_data' = story_data
        /\ heap' = h0
        /\ node_paths' = v.node_paths
        /\ rendered' = v.rendered
        /\ button' = "none"
        /\ message' = NoMessage
        /\ NoLocals

\* The Create Branch(es) handler run with the path source_path held by the
\* index for the selected source node.
CreateBranchAt(h0, source_node, source_path_in) ==
       \E dest_node \in DOMAIN node_paths \cup {AltEnding, Placeholder},
          bl \in BranchLengths,
          single \in BOOLEAN,
          api \in ExtensionApi :
        /\ Len(h0) + Len(get_story_json(FALSE, bl, api).value.nodes) <= MaxNodes
        /\ \E out \in {CreateBranchRun(h0, story_data,
                                       [node_paths EXCEPT ![source_node] = source_path_in],
                                       source_node, dest_node, bl, single, api)} :
            /\ story_data' = story_data
            /\ button' = "create"
            /\ single_branch_mode' = single
            /\ is_alt_ending' = (dest_node = AltEnding)
            /\ message' = out.message
            /\ source_path' = out.source_path
            /\ dest_path' = out.dest_path
            /\ branch_options' = out.branch_options
            /\ branch_options_copy' = out.branch_options_copy
            /\ IF out.message.kind = "exception"
               THEN /\ heap' = Collect(out.h, story_data)
                    /\ branch_length' = 0
               ELSE /\ heap' = out.h
                    /\ branch_length' = bl
            \* st.rerun() starts the next run, which rebuilds node_paths
            /\ IF out.rerun
               THEN \E v \in {Render(out.h, story_data, node_paths)} :
                        /\ node_paths' = v.node_paths
                        /\ rendered' = v.rendered
               ELSE /\ node_paths' = node_paths
                    /\ rendered' = rendered

\* A run with the Create Branch(es) button pressed.
CreateBranch ==
    /\ rendered
    /\ story_data # None
    /\ \E h0 \in {Collect(heap, story_data)} :
       \E source_node \in DOMAIN node_paths :
          CreateBranchAt(h0, source_node, node_paths[source_node])

Next == GenerateStory \/ Rerun \/ CreateBranch

Spec == Init /\ [][Next]_vars

\* ------------------------------------------- paths that do not resolve
\* The script rebuilds node_paths before every use, so the paths it hands to
\* update_node_children resolve.  To exercise the function's other branch
\* the handler is also run on paths that leave the tree: for every node, the
\* first index past its children, and that index followed by one more step
\* (an intermediate node without the child asked for).
UnresolvedPaths(h, root) ==
    LET e == extract_node_paths(h, root, <<>>, "").result
        out == {Append(e[i].path,
                       Len(h[get_node_by_path(h, root, e[i].path)].children)) :
                    i \in 1..Len(e)}
    IN  out \cup {Append(q, 0) : q \in out}

\* A Create Branch run whose source path does not resolve in story_data.
CreateBranchUnresolved ==
    /\ rendered
    /\ story_data # None
    /\ \E h0 \in {Collect(heap, story_data)} :
       \E source_node \in DOMAIN node_paths,
          path \in UnresolvedPaths(h0, story_data) :
          CreateBranchAt(h0, source_node, path)

NextAnyPath == GenerateStory \/ Rerun \/ CreateBranchUnresolved

SpecAnyPath == Init /\ [][NextAnyPath]_vars

\* ------------------------------- the earlier revision (src/unnamed/part_000)
\* The fourth script of part_000 is the first revision with an Extend
\* section.  Its index (extract_node_paths, get_node_by_path, the reset of
\* node_paths) and its Generate Story handler are those of src/app.py; its
\* get_story_json has no try around the API call and a fallback list of two
\* records without children; its update_node_children assigns the target's
\* children.
FallbackBranches_earlier ==
    ListOf(Single(DictNode(TRUE, "Option A", <<>>, FALSE)),
           Single(DictNode(TRUE, "Option B", <<>>, FALSE)))

get_story_json_earlier(is_initial_story, api) ==
    IF api.outcome = "json" THEN [raised |-> FALSE, value |-> api.value]
    ELSE IF api.outcome = "error" THEN [raised |-> TRUE, value |-> api.value]
    ELSE [raised |-> FALSE,
          value |-> IF is_initial_story THEN FallbackStory
                    ELSE FallbackBranches_earlier]

\* update_node_children of the earlier revision with the later revision's
\* append in place of the assignment
RECURSIVE update_node_children_earlier_append(_, _, _, _, _)
update_node_children_earlier_append(h, node, path, index, new_children) ==
    IF index >= Len(path)
    THEN [ok |-> TRUE,
          h |-> [h EXCEPT ![node].children = @ \o new_children]]
    ELSE IF path[index + 1] >= Len(h[node].children)
    THEN [ok |-> FALSE, h |-> h]
    ELSE update_node_children_earlier_append(h,
             h[node].children[path[index + 1]  + 1], path, index + 1, new_children)

\* update_node_children of the earlier revision: node["children"] = new_children
RECURSIVE update_node_children_earlier(_, _, _, _, _)
update_node_children_earlier(h, node, path, index, new_children) ==
    IF index >= Len(path)
    THEN [ok |-> TRUE,
          h |-> [h EXCEPT ![node].children = new_children]]
    ELSE IF path[index + 1] >= Len(h[node].children)
    THEN [ok |-> FALSE, h |-> h]
    ELSE update_node_children_earlier(h, h[node].children[path[index + 1]  + 1],
                                      path, index + 1, new_children)

\* The reply as the handler stores it.  The handler does not look at the
\* reply's type: a record assigned to "children" is read by the later
\* traversals as the list of its keys, strings, of which there are three
\* (name, description, children) or two.
Batch_earlier(value) ==
    IF value.type = "dict"
    THEN Frag("list",
              [j \in 1..(IF value.nodes[value.top[1]].has_name THEN 3 ELSE 2) |->
                  ScalarNode],
              [j \in 1..(IF value.nodes[value.top[1]].has_name THEN 3 ELSE 2) |-> j])
    ELSE value

\* A run of the earlier revision with the Extend Branch button pressed, for
\* replies that are a record or a list.
ExtendBranch ==
    /\ rendered
    /\ story_data # None
    /\ \E h0 \in {Collect(heap, story_data)} :
       \E selected_node \in DOMAIN node_paths, api \in ExtensionApi :
       \E r \in {get_story_json_earlier(FALSE, api)} :
        /\ r.value.type \in {"dict", "list"} \/ r.raised
        /\ Len(h0) + Len(Batch_earlier(r.value).nodes) <= MaxNodes
        /\ button' = "extend"
        /\ story_data' = story_data
        /\ dest_path' = NoPath
        /\ branch_length' = 0
        /\ branch_options_copy' = <<>>
        /\ single_branch_mode' = FALSE
        /\ is_alt_ending' = FALSE
        /\ IF r.raised
           THEN /\ heap' = h0
                /\ source_path' = NoPath
                /\ branch_options' = <<>>
                /\ message' = ExceptionMessage
                /\ node_paths' = node_paths
                /\ rendered' = rendered
           ELSE \E value \in {Batch_earlier(r.value)} :
                \E bo \in {[j \in 1..Len(value.top) |-> value.top[j] + Len(h0)]} :
                \E u \in {update_node_children_earlier(
                              h0 \o Shift(value.nodes, Len(h0)), story_data,
                              node_paths[selected_node], 0, bo)} :
                /\ heap' = u.h
                /\ source_path' = node_paths[selected_node]
                /\ branch_options' = bo
                /\ IF u.ok
                   \* st.rerun() starts the next run, which rebuilds node_paths
                   THEN \E v \in {Render(u.h, story_data, node_paths)} :
                            /\ message' = SuccessMessage(Len(bo), 0)
                            /\ node_paths' = v.node_paths
                            /\ rendered' = v.rendered
                   ELSE /\ message' = ErrorMessage
                        /\ node_paths' = node_paths
                        /\ rendered' = rendered

NextEarlier == GenerateStory \/ Rerun \/ ExtendBranch

SpecEarlier == Init /\ [][NextEarlier]_vars

\* ------------------------------------------------------------ properties
\* the paths of the tree in pre-order, every position counted (a shared
\* object once per position, as json.dumps writes it)
RECURSIVE PathsFrom(_, _, _)
PathsFrom(h, node, path) ==
    LET kids == h[node].children
        RECURSIVE below(_)
        below(i) == IF i > Len(kids) THEN <<>>
                    ELSE PathsFrom(h, kids[i], Append(path, i - 1)) \o below(i + 1)
    IN  <<path>> \o below(1)

TreePaths(h, root) == IF root = None THEN <<>> ELSE PathsFrom(h, root, <<>>)

NodeCount(h, root) == Len(TreePaths(h, root))

IsPrefix(p, q) == Len(p) <= Len(q) /\ SubSeq(q, 1, Len(p)) = p

\* the last run was a Create Branch run that ended in the success report
Extended == button = "create" /\ message.kind = "success"

\* the node the last Create Branch run extended
SourceNode == get_node_by_path(heap, story_data, source_path)

\* C1: a successful extension leaves the extended node's children equal to
\* the children it had followed by the new batch, in order; the handler's
\* original_count is the number of children it had.  Two extensions [A,B]
\* and then [C] therefore leave original, A, B, C.
C1_AppendOnlyOrder ==
    [][(button' = "create" /\ message'.kind = "success") =>
        LET target == get_node_by_path(heap, story_data, source_path')
        IN  /\ target # None
            /\ get_node_by_path(heap', story_data', source_path') = target
            /\ heap'[target].children = heap[target].children \o branch_options'
            /\ message'.original_count = Len(heap[target].children)
            /\ message'.added = Len(branch_options')]_vars

\* the root "A" extended with [A, B] and then with [C]
C1_Witness ==
    /\ Extended
    /\ message.original_count = 2
    /\ message.added = 1
    /\ LET kids == heap[SourceNode].children
       IN  /\ Len(kids) = 3
           /\ [i \in 1..3 |-> heap[kids[i]].name] = <<"A", "B", "C">>

\* C2: after a successful extension with a real destination, the subtree
\* of the extended node holds a merge node whose merge_target is the
\* destination's path.
C2_MergeEdgeStored ==
    (Extended /\ dest_path # NoPath) =>
        \E id \in Reachable(heap, SourceNode) :
            heap[id].has_merge /\ heap[id].merge_target = dest_path

\* C3: an extension whose destination is the source node or lies in the
\* subtree below it is rejected and the node count stays.
C3_MergeTargetRejected ==
    [][(button' = "create" /\ dest_path' # NoPath
        /\ IsPrefix(source_path', dest_path')) =>
            /\ message'.kind # "success"
            /\ NodeCount(heap', story_data') = NodeCount(heap, story_data)]_vars

\* C4: no two different nodes that extract_node_paths visits have the same
\* key of node_paths.
C4_UniqueKeys ==
    (story_data # None /\ rendered) =>
        LET e == extract_node_paths(heap, story_data, <<>>, "").result
        IN  \A i, j \in 1..Len(e) :
                (get_node_by_path(heap, story_data, e[i].path)
                    # get_node_by_path(heap, story_data, e[j].path))
                => e[i].name # e[j].name

\* C5: no object of story_data is a child twice, of one parent or of two.
C5_OwnershipTree ==
    story_data # None =>
        \A id \in Reachable(heap, story_data) :
            Cardinality({pi \in Reachable(heap, story_data) \X (1..MaxNodes + 5) :
                            /\ pi[2] <= Len(heap[pi[1]].children)
                            /\ heap[pi[1]].children[pi[2]] = id}) <= 1

\* an element that is no record with a name, or has such an element below it
RECURSIVE Malformed(_, _)
Malformed(h, id) ==
    \/ h[id].kind # "dict"
    \/ ~h[id].has_name
    \/ \E c \in Range(h[id].children) : Malformed(h, c)

\* C6: an extension whose batch has a malformed element fails and leaves
\* the node count as it was.
C6_AllOrNothing ==
    [][(button' = "create"
        /\ \E id \in Range(branch_options') : Malformed(heap', id)) =>
            /\ message'.kind # "success"
            /\ NodeCount(heap', story_data') = NodeCount(heap, story_data)]_vars

\* every path of the tree leads to the same object, with the same name, in
\* the next state
PathsKept ==
    \A p \in Range(TreePaths(heap, story_data)) :
        LET node == get_node_by_path(heap, story_data, p)
            next == get_node_by_path(heap', story_data', p)
        IN  /\ story_data' # None
            /\ next = node
            /\ heap'[next].name = heap[node].name

\* the run that leads to the next state stored the result of Generate Story
Regenerated == button' = "generate" /\ message'.kind # "exception"

C9_MergeTargetResolves ==
    \A id \in 1..Len(heap) :
        heap[id].has_merge =>
            /\ story_data # None
            /\ get_node_by_path(heap, story_data, heap[id].merge_target) # None

\* a merge node whose target is not the root
C9_Witness ==
    \E id \in 1..Len(heap) :
        /\ heap[id].has_merge
        /\ heap[id].merge_target # <<>>
        /\ heap[id].merge_target = dest_path

\* C10: a Create Branch run that does not end in the success report leaves
\* story_data as it was: the same root and the same objects.
C10_FailureLeavesTree ==
    [][(button' = "create" /\ message'.kind # "success") =>
        /\ story_data' = story_data
        /\ \/ heap' = heap
           \/ Collect(heap', story_data') = Collect(heap, story_data)]_vars

\* a Create Branch run on a grown tree ended with an exception
C10_Witness ==
    /\ button = "create"
    /\ message.kind = "exception"
    /\ NodeCount(heap, story_data) >= 3

\* C11: when the source path does not resolve in the tree,
\* update_node_children returns False and changes no object, the tree is
\* left as it was and the run in which it was called (the batch has an
\* element, so the loop body runs) reports the error message, not the
\* success message.
C11_UnresolvedPathFails ==
    [][(button' = "create" /\ source_path' # NoPath
        /\ get_node_by_path(heap, story_data, source_path') = None) =>
            /\ LET u == update_node_children(heap, story_data, source_path', 0,
                                             branch_options')
               IN  ~u.ok /\ u.h = heap
            /\ message'.kind # "success"
            /\ branch_options' # <<>> => message'.kind = "error"
            /\ story_data' = story_data
            /\ Collect(heap', story_data') = Collect(heap, story_data)]_vars

\* an extension of a grown tree at a path that leaves it through a node
\* that has children
C11_Witness ==
    /\ button = "create"
    /\ message.kind = "error"
    /\ Len(source_path) = 2
    /\ get_node_by_path(heap, story_data, source_path) = None
    /\ get_node_by_path(heap, story_data, SubSeq(source_path, 1, 1)) = None
    /\ NodeCount(heap, story_data) >= 3

\* every object below root is a record and is a child exactly once
TreeShaped(h, root) ==
    /\ \A id \in Reachable(h, root) : h[id].kind = "dict"
    /\ \A id \in Reachable(h, root) \ {root} :
           Cardinality({pi \in Reachable(h, root) \X (1..Len(h)) :
                           /\ pi[2] <= Len(h[pi[1]].children)
                           /\ h[pi[1]].children[pi[2]] = id}) = 1
    /\ \A id \in Reachable(h, root) : root \notin Range(h[id].children)

\* p comes before q in depth-first pre-order: p leads to an ancestor of q's
\* node, or the two part at a node where p takes the earlier child
PreOrderBefore(p, q) ==
    \/ Len(p) < Len(q) /\ SubSeq(q, 1, Len(p)) = p
    \/ \E k \in 1..Len(p) :
          /\ k <= Len(q)
          /\ SubSeq(p, 1, k - 1) = SubSeq(q, 1, k - 1)
          /\ p[k] < q[k]

\* C12: on a tree, extract_node_paths does not raise and returns one entry
\* per node reachable from the root, each node once, in depth-first
\* pre-order (a node before its children, children in list order).
C12_TraversalComplete ==
    (story_data # None /\ TreeShaped(heap, story_data)) =>
        LET r == extract_node_paths(heap, story_data, <<>>, "")
            e == r.result
            node(i) == get_node_by_path(heap, story_data, e[i].path)
        IN  /\ ~r.raised
            /\ Len(e) = Cardinality(Reachable(heap, story_data))
            /\ {node(i) : i \in 1..Len(e)} = Reachable(heap, story_data)
            /\ \A i, j \in 1..Len(e) :
                   i < j => PreOrderBefore(e[i].path, e[j].path)

\* a tree whose root has two children, one of them with a child of its own
C12_Witness ==
    /\ story_data # None
    /\ rendered
    /\ TreeShaped(heap, story_data)
    /\ Len(heap[story_data].children) >= 2
    /\ \E p \in Range(TreePaths(heap, story_data)) : Len(p) = 2

\* C13: a successful extension appends one branch in single-branch mode
\* and two or three branches in multi-branch mode.
C13_BranchCounts ==
    Extended =>
        IF single_branch_mode THEN message.added = 1
                              ELSE message.added \in {2, 3}

\* the key extract_node_paths gives a node: one arrow per level, then the name
RECURSIVE KeyOf(_, _)
KeyOf(depth, name) == IF depth = 0 THEN name ELSE Arrow \o KeyOf(depth - 1, name)

\* C14: whenever the select boxes are built, every key of node_paths is the
\* key of a node of the current story_data, its path leads to such a node,
\* and every node's key is in the index.
C14_IndexConsistent ==
    (rendered /\ story_data # None) =>
        /\ \A k \in DOMAIN node_paths :
              LET n == get_node_by_path(heap, story_data, node_paths[k])
              IN  /\ n # None
                  /\ heap[n].kind = "dict"
                  /\ k = KeyOf(Len(node_paths[k]), GetName(heap[n], "Unnamed"))
        /\ \A p \in Range(TreePaths(heap, story_data)) :
              KeyOf(Len(p), GetName(heap[get_node_by_path(heap, story_data, p)],
                                    "Unnamed")) \in DOMAIN node_paths

\* the index built after an extension of a grown tree holds a node of the
\* new batch
C14_Witness ==
    /\ Extended
    /\ rendered
    /\ \E k \in DOMAIN node_paths :
          get_node_by_path(heap, story_data, node_paths[k]) \in Range(branch_options)
    /\ message.original_count > 0

\* C15: right after a Generate Story run that stored its result, every
\* node of story_data has at most one child.
C15_LinearAfterGenerate ==
    (button = "generate" /\ message.kind # "exception" /\ story_data # None) =>
        \A id \in Reachable(heap, story_data) : Len(heap[id].children) <= 1

\* the distance from an object of the generated batch to its deep copy
CopyOffset == branch_options_copy[1] - branch_options[1]

\* C16: the node a merge node was attached to still has every child it had
\* before (the children of the object it was copied from, which the run
\* leaves as generated).
C16_MergeAttachAppends ==
    (Extended /\ branch_options_copy # <<>>) =>
        \A id \in 1..Len(heap) :
            (\E m \in Range(heap[id].children) : heap[m].has_merge) =>
                \A c \in Range(heap[id - CopyOffset].children) :
                    c + CopyOffset \in Range(heap[id].children)

\* C17: a Create Branch run with the destination "Alternative Ending (No
\* Merge)" reports success and leaves the source node with more children
\* (the source is a key of the index just rebuilt, so its path resolves).
C17_AltEndingExtends ==
    [][(button' = "create" /\ is_alt_ending') =>
        /\ message'.kind = "success"
        /\ NodeCount(heap', story_data') > NodeCount(heap, story_data)]_vars

\* C18: get_story_json never raises, whatever the chat-completion call does;
\* so a Generate Story run, whose handler is the one call of get_story_json,
\* never ends with an exception.
C18_NeverRaises ==
    button = "generate" => message.kind # "exception"

\* the nodes from id down its first children, in order
RECURSIVE FirstChildChain(_, _)
FirstChildChain(h, id) ==
    IF h[id].children = <<>> THEN <<id>>
    ELSE <<id>> \o FirstChildChain(h, h[id].children[1])

\* the batch the last run grafted is the extension fallback of get_story_json
FallbackGrafted ==
    /\ Extended
    /\ Len(branch_options) = 2
    /\ heap[branch_options[1]].name = "Option A"
    /\ heap[branch_options[2]].name = "Option B"

\* C19: each option of the extension fallback is a linear chain of exactly
\* branch_length nodes, the option node counted, that ends in the node named
\* "Final Node in Branch".
C19_FallbackChainLength ==
    FallbackGrafted =>
        \A b \in Range(branch_options) :
            LET chain == FirstChildChain(heap, b)
            IN  /\ \A i \in 1..Len(chain) : Len(heap[chain[i]].children) <= 1
                /\ Len(chain) = branch_length
                /\ heap[chain[Len(chain)]].name = "Final Node in Branch"

Min(a, b) == IF a <= b THEN a ELSE b

\* C20: in a merge-mode run the merge node is the one child of the node
\* reached from the processed branch's first node by min(branch_length - 2,
\* depth of its first-child chain) first-child steps, so the chain from the
\* first node to the merge node has at most branch_length nodes.  The run
\* processes the first branch of the copy: its graft ends the run.
C20_MergeDepth ==
    (Extended /\ branch_options_copy # <<>>) =>
        LET generated == FirstChildChain(heap, branch_options[1])
            steps == Min(branch_length - 2, Len(generated) - 1)
            last == generated[steps + 1] + CopyOffset
            processed == FirstChildChain(heap, branch_options_copy[1])
        IN  /\ Len(heap[last].children) = 1
            /\ heap[heap[last].children[1]].has_merge
            /\ Len(processed) = steps + 2
            /\ processed[steps + 1] = last
            /\ heap[processed[steps + 2]].has_merge
            /\ Len(processed) <= branch_length

\* a run with branch_length 3 whose first branch came with a child: the
\* walk took one step
C20_Witness ==
    /\ Extended
    /\ branch_options_copy # <<>>
    /\ branch_length = MaxBranchLength
    /\ Len(FirstChildChain(heap, branch_options[1])) >= 2
    /\ Len(FirstChildChain(heap, branch_options_copy[1])) = 3

\* C21: after a successful extension the last node of every branch that
\* was appended to the source node carries an achievement.
C21_BranchEndsHaveAchievement ==
    Extended =>
        \A b \in Range(heap[SourceNode].children) :
            b \in Range(branch_options) =>
                LET chain == FirstChildChain(heap, b)
                IN  heap[chain[Len(chain)]].achievement

\* C22: in the earlier revision a successful extension leaves the target's
\* children equal to the new batch; no object that was below the target is
\* in the tree any more, and no path into the old subtree leads to the node
\* it led to.
C22_EarlierRevisionReplaces ==
    [][(button' = "extend" /\ message'.kind = "success") =>
        LET target == get_node_by_path(heap, story_data, source_path')
        IN  /\ target # None
            /\ heap'[target].children = branch_options'
            /\ \A id \in Reachable(heap, target) \ {target} :
                   id \notin Reachable(heap', story_data')
            /\ \A p \in Range(TreePaths(heap, story_data)) :
                   (IsPrefix(source_path', p) /\ p # source_path') =>
                       get_node_by_path(heap', story_data', p)
                           # get_node_by_path(heap, story_data, p)]_vars

\* an extension has removed children: an object of the heap below the
\* newest object of the tree is no longer in the tree
C22_Witness ==
    /\ button = "extend"
    /\ message.kind = "success"
    /\ \E id \in 1..TreeSize(heap, story_data) :
          id \notin Reachable(heap, story_data)

\* C23: the session starts without a story; a story comes to exist only by
\* a Generate Story run; and a Create Branch run happens only in a state
\* where a story exists.  So every graft is preceded by a Generate Story run.
C23_NoExtensionBeforeStory ==
    /\ story_data = None
    /\ [][/\ (story_data = None /\ story_data' # None) => button' = "generate"
          /\ button' = "create" => (story_data # None /\ story_data' = story_data)
          /\ (button' # "generate" /\ heap' # heap) => story_data # None]_vars

\* a graft was applied
C23_Witness ==
    /\ Extended
    /\ story_data # None
    /\ branch_options # <<>>
    /\ \A b \in Range(branch_options) : b \in Reachable(heap, story_data)

\* the objects reached from the objects of S in at most n steps along children
RECURSIVE ReachWithin(_, _, _)
ReachWithin(h, S, n) ==
    IF n = 0 THEN S
    ELSE ReachWithin(h, S \cup UNION {Range(h[x].children) : x \in S}, n - 1)

\* no object is reached from itself along children
Acyclic(h) ==
    \A id \in 1..Len(h) :
        id \notin ReachWithin(h, Range(h[id].children), Len(h))

\* C24: no object is reachable from itself through children, in story_data
\* and among the objects of the run; and no object the run built outside
\* story_data (a processed branch, a merge node) holds an object of
\* story_data: the merge relation is the stored path alone.
C24_NoReferenceCycle ==
    /\ Acyclic(heap)
    /\ story_data # None =>
          \A id \in 1..Len(heap) :
              id \notin Reachable(heap, story_data) =>
                  Range(heap[id].children) \cap Reachable(heap, story_data) = {}

\* a merge back to the extended node itself or to one of its ancestors: the
\* case in which a reference to the destination object would close a cycle
C24_Witness ==
    /\ Extended
    /\ dest_path # NoPath
    /\ IsPrefix(dest_path, source_path)
    /\ \E id \in 1..Len(heap) :
          heap[id].has_merge /\ heap[id].merge_target = dest_path

\* the number of positions at which id is a child of node
Occurrences(h, node, id) ==
    Cardinality({j \in 1..Len(h[node].children) : h[node].children[j] = id})

\* C25: a Create Branch run that reports success leaves the source node
\* with exactly len(branch_options) more children, every element of the
\* batch among them once; a run that does not report success leaves the
\* source node's children as they were.
C25_GraftOncePerPress ==
    [][button' = "create" =>
        IF message'.kind = "success"
        THEN LET target == get_node_by_path(heap, story_data, source_path')
             IN  /\ Len(heap'[target].children)
                        = Len(heap[target].children) + Len(branch_options')
                 /\ \A b \in Range(branch_options') :
                        Occurrences(heap', target, b) = 1
        ELSE \A id \in Reachable(heap, story_data) :
                heap'[id].children = heap[id].children]_vars

\* a batch of two branches was grafted: the loop had a second branch to
\* run its body for
C25_Witness ==
    /\ Extended
    /\ Len(branch_options) = 2
    /\ Len(branch_options_copy) = 2
    /\ Len(heap[SourceNode].children) = message.original_count + 2

\* C26: a successful extension leaves every path that led to a node
\* leading to the same node; so does the merge_target set in the run, which
\* leads to the node it led to when it was read from the index.
C26_PathsStable ==
    [][(button' = "create" /\ message'.kind = "success") =>
        /\ \A p \in Range(TreePaths(heap, story_data)) :
               get_node_by_path(heap', story_data', p)
                   = get_node_by_path(heap, story_data, p)
        /\ \A id \in 1..Len(heap') :
               heap'[id].has_merge =>
                   /\ get_node_by_path(heap, story_data, heap'[id].merge_target) # None
                   /\ get_node_by_path(heap', story_data', heap'[id].merge_target)
                          = get_node_by_path(heap, story_data, heap'[id].merge_target)]_vars

\* the extended node had children and the merge target is one of them: a
\* path through the children list that grew
C26_Witness ==
    /\ Extended
    /\ message.original_count > 0
    /\ dest_path # NoPath
    /\ Len(dest_path) = Len(source_path) + 1
    /\ IsPrefix(source_path, dest_path)
    /\ \E id \in 1..Len(heap) :
          heap[id].has_merge /\ heap[id].merge_target = dest_path

\* C27: get_node_by_path leads from the root along the path recorded for a
\* node to that node; and on a tree of records it returns None exactly
\* for the paths that are no position of the tree, those with an index not
\* smaller than the number of children of the node reached before it.  The
\* paths tried are the recorded ones and, for every node, the first index
\* past its children and that index followed by one more step.
C27_PathRoundTrip ==
    story_data # None =>
        LET e == extract_node_paths(heap, story_data, <<>>, "").result
            recorded == {e[i].path : i \in 1..Len(e)}
            past == {Append(e[i].path, Len(heap[e[i].node].children)) :
                        i \in 1..Len(e)}
            tried == recorded \cup past \cup {Append(q, 0) : q \in past}
            leaves(p) ==
                \E i \in 1..Len(e), k \in 0..(Len(p) - 1) :
                    /\ e[i].path = SubSeq(p, 1, k)
                    /\ p[k + 1] >= Len(heap[e[i].node].children)
        IN  /\ \A i \in 1..Len(e) :
                   get_node_by_path(heap, story_data, e[i].path) = e[i].node
            /\ rendered =>
                   \A p \in tried :
                       (get_node_by_path(heap, story_data, p) = None) <=> leaves(p)

\* an index built for a tree with a branching and a second level
C27_Witness ==
    /\ rendered
    /\ story_data # None
    /\ \E k \in DOMAIN node_paths :
          /\ Len(node_paths[k]) = 2
          /\ get_node_by_path(heap, story_data, node_paths[k]) # None
    /\ \E k \in DOMAIN node_paths :
          Len(node_paths[k]) = 1 /\ node_paths[k][1] > 0

\* C28: a successful update_node_children changes the children list of the
\* node at the path and nothing else: every other object of story_data is
\* as it was, and the node at the path keeps its name, achievement and
\* merge_target.
C28_UpdateFrame ==
    [][(button' = "create" /\ message'.kind = "success") =>
        LET target == get_node_by_path(heap, story_data, source_path')
        IN  \A id \in Reachable(heap, story_data) :
                IF id = target
                THEN /\ heap'[id].children # heap[id].children
                     /\ [heap'[id] EXCEPT !.children = heap[id].children] = heap[id]
                ELSE heap'[id] = heap[id]]_vars

\* an extension below the root of a tree with other nodes that have
\* children or an achievement to keep
C28_Witness ==
    /\ Extended
    /\ source_path # <<>>
    /\ NodeCount(heap, story_data) >= 4
    /\ Len(heap[story_data].children) >= 2

\* the key of the node at position p of the tree
KeyAt(h, root, p) ==
    KeyOf(Len(p), GetName(h[get_node_by_path(h, root, p)], "Unnamed"))

\* q is the last position in pre-order among the positions with q's key
LastForKey(h, root, q) ==
    \A p \in Range(TreePaths(h, root)) :
        KeyAt(h, root, p) = KeyAt(h, root, q) => (p = q \/ PreOrderBefore(p, q))

\* C29: node_paths holds for every key the path of the last node in
\* pre-order that has the key, one entry however many nodes share it; and
\* the source and destination paths a Create Branch run resolves are such
\* last paths in the tree the run started with.
C29_LastDuplicateWins ==
    /\ [](( rendered /\ story_data # None) =>
            \A k \in DOMAIN node_paths :
                /\ node_paths[k] \in Range(TreePaths(heap, story_data))
                /\ KeyAt(heap, story_data, node_paths[k]) = k
                /\ LastForKey(heap, story_data, node_paths[k]))
    /\ [][(button' = "create" /\ source_path' # NoPath) =>
            /\ LastForKey(heap, story_data, source_path')
            /\ dest_path' # NoPath => LastForKey(heap, story_data, dest_path')]_vars

\* the node extended is one of two nodes with the same key
C29_Witness ==
    /\ Extended
    /\ \E p \in Range(TreePaths(heap, story_data)) :
          /\ p # source_path
          /\ KeyAt(heap, story_data, p) = KeyAt(heap, story_data, source_path)

====
